---- MODULE Spec2Model ----
(***************************************************************************)
(* A model of model/dataloader_utils.py: the geometric core (quat2dcm,     *)
(* Camera, project, scalePoseVector) and the SpeedDataset index with its   *)
(* visualize method.                                                       *)
(*                                                                         *)
(* Real numbers are exact rationals <<num, den>> in lowest terms with      *)
(* den > 0; the pair <<0, 0>> stands for a non-finite numpy value (inf or  *)
(* nan), which every arithmetic operation propagates.  Python sequences    *)
(* are 0-based and TLA+ sequences 1-based: source index i is index i+1     *)
(* here, so dcm[0, 1] of the source is dcm[1][2] of the model.             *)
(***************************************************************************)
EXTENDS Integers, Sequences, FiniteSets, TLC

VARIABLES
    \* quat2dcm called on its own
    q, dcm,
    \* Camera constructed on its own
    img_size, input_size, camera,
    \* project called on its own
    pq, pr, pK, points, pxy,
    \* scalePoseVector called on its own
    xa, ya, factor, scaled,
    \* SpeedDataset: constructor arguments, the annotation file, the object
    split, label_list, split_index, sanity_check, transform,
    self, pc, opened, ret,
    \* the frame of a running visualize call
    vis

vars == <<q, dcm, img_size, input_size, camera, pq, pr, pK, points, pxy,
          xa, ya, factor, scaled, split, label_list, split_index,
          sanity_check, transform, self, pc, opened, ret, vis>>

quatVars == <<q, dcm>>
camVars == <<img_size, input_size, camera>>
projVars == <<pq, pr, pK, points, pxy>>
scaleVars == <<xa, ya, factor, scaled>>
dataVars == <<split, label_list, split_index, sanity_check, transform,
              self, pc, opened, ret, vis>>

Unused == "unused"
Pending == [tag |-> "pending"]
\* an optional argument: None is the empty tuple, a value v is <<v>>
None == <<>>
Some(v) == <<v>>

QuatIdle == q = Unused /\ dcm = Unused
CamIdle == img_size = Unused /\ input_size = Unused /\ camera = Unused
ProjIdle == pq = Unused /\ pr = Unused /\ pK = Unused /\ points = Unused /\ pxy = Unused
ScaleIdle == xa = Unused /\ ya = Unused /\ factor = Unused /\ scaled = Unused
DataIdle ==
    /\ split = Unused /\ label_list = Unused /\ split_index = Unused
    /\ sanity_check = Unused /\ transform = Unused /\ self = Unused
    /\ pc = Unused /\ opened = Unused /\ ret = Unused /\ vis = Unused

(***************************************************************************)
(* Exact arithmetic                                                        *)
(***************************************************************************)
Abs(x) == IF x < 0 THEN -x ELSE x

RECURSIVE GCD(_, _)
GCD(a, b) == IF b = 0 THEN a ELSE GCD(b, a % b)

NaN == <<0, 0>>
Finite(x) == x[2] # 0

Rat(n, d) ==
    IF d = 0 THEN NaN
    ELSE LET g == GCD(Abs(n), Abs(d))
             s == IF d < 0 THEN -1 ELSE 1
         IN  <<(s * n) \div g, Abs(d) \div g>>

RInt(i) == <<i, 1>>

\* a + b; with g = gcd of the denominators the sum is n / (a2/g * b2) and
\* only a divisor of g can still be cancelled
RAdd(a, b) ==
    IF ~Finite(a) \/ ~Finite(b) THEN NaN
    ELSE IF a[1] = 0 THEN b
    ELSE IF b[1] = 0 THEN a
    ELSE IF a[2] = 1 /\ b[2] = 1 THEN <<a[1] + b[1], 1>>
    ELSE LET g == GCD(a[2], b[2])
             n == a[1] * (b[2] \div g) + b[1] * (a[2] \div g)
             t == GCD(Abs(n), g)
         IN  <<n \div t, (a[2] \div g) * (b[2] \div t)>>

RNeg(a) == IF Finite(a) THEN <<-a[1], a[2]>> ELSE NaN

RSub(a, b) == RAdd(a, RNeg(b))

\* a * b, cancelling across before multiplying; the result is in lowest terms
RMul(a, b) ==
    IF ~Finite(a) \/ ~Finite(b) THEN NaN
    ELSE IF a[1] = 0 \/ b[1] = 0 THEN <<0, 1>>
    ELSE IF a[2] = 1 /\ b[2] = 1 THEN <<a[1] * b[1], 1>>
    ELSE LET g1 == GCD(Abs(a[1]), b[2])
             g2 == GCD(Abs(b[1]), a[2])
         IN  <<(a[1] \div g1) * (b[1] \div g2), (a[2] \div g2) * (b[2] \div g1)>>

\* numpy division: a zero divisor gives inf or nan, never an exception
RDiv(a, b) ==
    IF ~Finite(a) \/ ~Finite(b) \/ b[1] = 0 THEN NaN
    ELSE RMul(a, Rat(b[2], b[1]))

\* np.dot on matrices held as sequences of rows
RECURSIVE DotSum(_, _, _)
DotSum(u, v, k) ==
    IF k = 0 THEN RInt(0) ELSE RAdd(DotSum(u, v, k - 1), RMul(u[k], v[k]))

Dot(u, v) == DotSum(u, v, Len(u))

Col(m, j) == [i \in 1..Len(m) |-> m[i][j]]

MatMul(a, b) ==
    [i \in 1..Len(a) |-> [j \in 1..Len(b[1]) |-> Dot(a[i], Col(b, j))]]

Transpose(m) == [j \in 1..Len(m[1]) |-> Col(m, j)]

Identity3 ==
    << <<RInt(1), RInt(0), RInt(0)>>,
       <<RInt(0), RInt(1), RInt(0)>>,
       <<RInt(0), RInt(0), RInt(1)>> >>

Det3(m) ==
    RAdd(RSub(RMul(m[1][1], RSub(RMul(m[2][2], m[3][3]), RMul(m[2][3], m[3][2]))),
              RMul(m[1][2], RSub(RMul(m[2][1], m[3][3]), RMul(m[2][3], m[3][1])))),
         RMul(m[1][3], RSub(RMul(m[2][1], m[3][2]), RMul(m[2][2], m[3][1]))))

(***************************************************************************)
(* quat2dcm                                                                *)
(***************************************************************************)
\* |q|^2.  np.linalg.norm(q) is its square root; every entry of dcm is of
\* degree two in the normalised components, so only |q|^2 is ever needed.
NormSq(qv) == qv[1] * qv[1] + qv[2] * qv[2] + qv[3] * qv[3] + qv[4] * qv[4]

\* the product of normalised components i and j: (q_i/|q|) * (q_j/|q|)
NProd(qv, i, j) == Rat(qv[i] * qv[j], NormSq(qv))

Two == RInt(2)
One == RInt(1)

quat2dcm_signslip(qv) ==
    LET q0q0 == NProd(qv, 1, 1)
        q1q1 == NProd(qv, 2, 2)
        q2q2 == NProd(qv, 3, 3)
        q3q3 == NProd(qv, 4, 4)
    IN  << << RAdd(RSub(RMul(Two, q0q0), One), RMul(Two, q1q1)),
              RSub(RMul(Two, NProd(qv, 2, 3)), RMul(Two, NProd(qv, 1, 4))),
              RSub(RMul(Two, NProd(qv, 2, 4)), RMul(Two, NProd(qv, 1, 3))) >>,
           << RSub(RMul(Two, NProd(qv, 2, 3)), RMul(Two, NProd(qv, 1, 4))),
              RAdd(RSub(RMul(Two, q0q0), One), RMul(Two, q2q2)),
              RAdd(RMul(Two, NProd(qv, 3, 4)), RMul(Two, NProd(qv, 1, 2))) >>,
           << RAdd(RMul(Two, NProd(qv, 2, 4)), RMul(Two, NProd(qv, 1, 3))),
              RSub(RMul(Two, NProd(qv, 3, 4)), RMul(Two, NProd(qv, 1, 2))),
              RAdd(RSub(RMul(Two, q0q0), One), RMul(Two, q3q3)) >> >>

\* A zero quaternion is divided by a zero norm: every component, and so every
\* entry, is nan (NProd gives NaN and the arithmetic propagates it).
quat2dcm(qv) ==
    LET q0q0 == NProd(qv, 1, 1)
        q1q1 == NProd(qv, 2, 2)
        q2q2 == NProd(qv, 3, 3)
        q3q3 == NProd(qv, 4, 4)
    IN  << << RAdd(RSub(RMul(Two, q0q0), One), RMul(Two, q1q1)),
              RAdd(RMul(Two, NProd(qv, 2, 3)), RMul(Two, NProd(qv, 1, 4))),
              RSub(RMul(Two, NProd(qv, 2, 4)), RMul(Two, NProd(qv, 1, 3))) >>,
           << RSub(RMul(Two, NProd(qv, 2, 3)), RMul(Two, NProd(qv, 1, 4))),
              RAdd(RSub(RMul(Two, q0q0), One), RMul(Two, q2q2)),
              RAdd(RMul(Two, NProd(qv, 3, 4)), RMul(Two, NProd(qv, 1, 2))) >>,
           << RAdd(RMul(Two, NProd(qv, 2, 4)), RMul(Two, NProd(qv, 1, 3))),
              RSub(RMul(Two, NProd(qv, 3, 4)), RMul(Two, NProd(qv, 1, 2))),
              RAdd(RSub(RMul(Two, q0q0), One), RMul(Two, q3q3)) >> >>

QMax == 2
QuatSet == [1..4 -> -QMax..QMax]

QuatInit ==
    /\ q \in QuatSet
    /\ dcm = Pending
    /\ CamIdle /\ ProjIdle /\ ScaleIdle /\ DataIdle

CallQuat2dcm ==
    /\ dcm = Pending
    /\ dcm' = [tag |-> "ok", val |-> quat2dcm(q)]
    /\ UNCHANGED <<q, camVars, projVars, scaleVars, dataVars>>

QuatNext == CallQuat2dcm

SpecQuat == QuatInit /\ [][QuatNext]_vars

\* n * R, the entries of quat2dcm with the normalisation multiplied out
ScaledDcm(m, n) == [i \in 1..3 |-> [j \in 1..3 |-> RMul(RInt(n), m[i][j])]]

\* C4: for every non-zero quaternion the matrix returned by quat2dcm is a
\* proper rotation: R.Rt = Identity and det(R) = 1; equivalently, with
\* n = |q|^2 and M = n.R, M is an integer matrix with M.Mt = n^2.Identity and
\* det(M) = n^3.
C4_ProperRotation ==
    (dcm.tag = "ok" /\ NormSq(q) # 0) =>
        LET R == dcm.val
            n == NormSq(q)
            M == ScaledDcm(R, n)
        IN  /\ MatMul(R, Transpose(R)) = Identity3
            /\ Det3(R) = One
            /\ \A i, j \in 1..3 : M[i][j][2] = 1
            /\ M[1][1] = RInt(2 * q[1] * q[1] - n + 2 * q[2] * q[2])
            /\ M[1][2] = RInt(2 * q[2] * q[3] + 2 * q[1] * q[4])
            /\ MatMul(M, Transpose(M)) = ScaledDcm(Identity3, n * n)
            /\ Det3(M) = RInt(n * n * n)

\* a non-trivial rotation (neither the identity nor a unit quaternion) was converted
C4_Witness ==
    /\ dcm.tag = "ok"
    /\ q = <<1, 2, -1, 2>>
    /\ dcm.val # Identity3

(***************************************************************************)
(* Camera                                                                  *)
(***************************************************************************)
fx == Rat(176, 10000)        \* focal length [m]
fy == Rat(176, 10000)
nu == 1920                   \* number of horizontal pixels
nv == 1200                   \* number of vertical pixels
ppx == Rat(586, 100000000)   \* pixel pitch [m / pixel]
ppy == ppx
fpx == RDiv(fx, ppx)         \* focal length [pixels]
fpy == RDiv(fy, ppy)

Camera_nuFromImgSize(img, inp) ==
    IF img[1] = 0 \/ img[2] = 0 THEN [tag |-> "ZeroDivisionError"]
    ELSE LET k == << <<fpx, RInt(0), Rat(img[1], 2)>>,
                     <<RInt(0), fpy, Rat(img[2], 2)>>,
                     <<RInt(0), RInt(0), RInt(1)>> >>
             scale == << <<Rat(inp[1], img[1]), RInt(0), RInt(0)>>,
                         <<RInt(0), Rat(inp[2], img[2]), RInt(0)>>,
                         <<RInt(0), RInt(0), RInt(1)>> >>
         IN  [tag |-> "ok", input_size |-> inp, nu |-> img[1], nv |-> img[2],
              K |-> MatMul(scale, k)]

\* Camera.__init__: img[1]/img[2] are img_size[0]/img_size[1] of the source.
\* The divisions are Python scalar divisions, which raise on a zero divisor.
Camera(img, inp) ==
    IF img[1] = 0 \/ img[2] = 0 THEN [tag |-> "ZeroDivisionError"]
    ELSE LET k == << <<fpx, RInt(0), Rat(nu, 2)>>,
                     <<RInt(0), fpy, Rat(nv, 2)>>,
                     <<RInt(0), RInt(0), RInt(1)>> >>
             scale == << <<Rat(inp[1], img[1]), RInt(0), RInt(0)>>,
                         <<RInt(0), Rat(inp[2], img[2]), RInt(0)>>,
                         <<RInt(0), RInt(0), RInt(1)>> >>
         IN  [tag |-> "ok", input_size |-> inp, nu |-> nu, nv |-> nv,
              K |-> MatMul(scale, k)]

MaxSizeSteps == 8
Sizes == {240 * i : i \in 0..MaxSizeSteps}

CamInit ==
    /\ img_size \in Sizes \X Sizes
    /\ input_size \in Sizes \X Sizes
    /\ camera = Pending
    /\ QuatIdle /\ ProjIdle /\ ScaleIdle /\ DataIdle

CallCamera ==
    /\ camera = Pending
    /\ camera' = Camera(img_size, input_size)
    /\ UNCHANGED <<img_size, input_size, quatVars, projVars, scaleVars, dataVars>>

CamNext == CallCamera

SpecCamera == CamInit /\ [][CamNext]_vars

\* C5 as stated: with input_size equal to img_size, the principal point is
\* (img_size[0]/2, img_size[1]/2) and the focal terms are focal length / pitch.
C5_PrincipalPointFromImgSize ==
    (camera.tag = "ok" /\ input_size = img_size) =>
        /\ camera.K[1][3] = Rat(img_size[1], 2)
        /\ camera.K[2][3] = Rat(img_size[2], 2)
        /\ camera.K[1][1] = RDiv(fx, ppx)
        /\ camera.K[2][2] = RDiv(fy, ppy)

\* C5 amended: for every img_size with non-zero components, with input_size
\* equal to img_size, the principal point is exactly (camera.nu/2, camera.nv/2)
\* = (960, 600), the fixed 1920x1200 sensor size the camera stores whatever
\* img_size was passed, and the focal terms are focal length / pixel pitch,
\* unmodified by the scale.
C5_PrincipalPointFromSensor ==
    (camera.tag \in {"ok", "ZeroDivisionError"} /\ input_size = img_size) =>
        /\ camera.tag = "ok" <=> (img_size[1] # 0 /\ img_size[2] # 0)
        /\ camera.tag = "ok" =>
            /\ camera.nu = 1920 /\ camera.nv = 1200
            /\ camera.K[1][3] = Rat(camera.nu, 2)
            /\ camera.K[2][3] = Rat(camera.nv, 2)
            /\ camera.K[1][3] = RInt(960) /\ camera.K[2][3] = RInt(600)
            /\ camera.K[1][1] = RDiv(fx, ppx)
            /\ camera.K[2][2] = RDiv(fy, ppy)
            /\ camera.K[1][1] = Rat(880000, 293)

\* a camera was built with equal sizes that are not the sensor's 1920x1200
C5_Witness ==
    /\ camera.tag = "ok"
    /\ input_size = img_size
    /\ img_size = <<480, 240>>

(***************************************************************************)
(* project                                                                 *)
(***************************************************************************)
\* np.hstack((np.transpose(R), np.expand_dims(r, 1))): rows of R-transpose
\* with the matching component of r appended
PoseMat(R, r) == [i \in 1..3 |-> Transpose(R)[i] \o <<r[i]>>]

project_noDivide(qv, r, K, pts) ==
    LET pose_mat == PoseMat(quat2dcm(qv), r)
        p_cam == [i \in 1..3 |-> [n \in 1..Len(pts) |-> Dot(pose_mat[i], pts[n])]]
        points_image_plane ==
            [i \in 1..3 |-> [n \in 1..Len(pts) |-> Dot(K[i], Col(p_cam, n))]]
    IN  <<points_image_plane[1], points_image_plane[2]>>

\* pts is the N x 4 array `points`, one homogeneous point per row; the result
\* is the pair (x, y) of length-N rows of pixel coordinates.
project(qv, r, K, pts) ==
    LET pose_mat == PoseMat(quat2dcm(qv), r)
        \* p_cam = pose_mat . points.T, a 3 x N array
        p_cam == [i \in 1..3 |-> [n \in 1..Len(pts) |-> Dot(pose_mat[i], pts[n])]]
        points_camera_frame ==
            [i \in 1..3 |-> [n \in 1..Len(pts) |-> RDiv(p_cam[i][n], p_cam[3][n])]]
        points_image_plane ==
            [i \in 1..3 |-> [n \in 1..Len(pts) |->
                Dot(K[i], Col(points_camera_frame, n))]]
    IN  <<points_image_plane[1], points_image_plane[2]>>

Pt(a, b, c) == <<a, b, c, RInt(1)>>

axes_vertices ==
    << Pt(RInt(0), RInt(0), RInt(0)), Pt(RInt(1), RInt(0), RInt(0)),
       Pt(RInt(0), RInt(1), RInt(0)), Pt(RInt(0), RInt(0), RInt(1)) >>

wireframe_vertices ==
    << Pt(Rat(37, 100), Rat(285, 1000), RInt(0)),
       Pt(Rat(-37, 100), Rat(285, 1000), RInt(0)),
       Pt(Rat(-37, 100), Rat(-285, 1000), RInt(0)),
       Pt(Rat(37, 100), Rat(-285, 1000), RInt(0)),
       Pt(Rat(37, 100), Rat(285, 1000), Rat(295, 1000)),
       Pt(Rat(-37, 100), Rat(285, 1000), Rat(295, 1000)),
       Pt(Rat(-37, 100), Rat(-285, 1000), Rat(295, 1000)),
       Pt(Rat(37, 100), Rat(-285, 1000), Rat(295, 1000)) >>

Vec(s) == [i \in 1..Len(s) |-> RInt(s[i])]

DMax == 3
CMax == 2
ProjQuats == {<<1, 0, 0, 0>>, <<1, 1, 0, 0>>, <<1, 0, -1, 2>>, <<0, 0, 0, 0>>}
ProjFocals == {RInt(1), Rat(5, 2)}
ProjCentres == {Rat(i, 2) : i \in 0..CMax}
ProjPointSets == {<<axes_vertices[1]>>, <<axes_vertices[2]>>, axes_vertices, wireframe_vertices}

Intrinsics(f1, f2, c1, c2) ==
    << <<f1, RInt(0), c1>>, <<RInt(0), f2, c2>>, <<RInt(0), RInt(0), RInt(1)>> >>

ProjInit ==
    /\ pq \in ProjQuats
    /\ pr \in {Vec(<<ab[1], ab[2], d>>) :
                  ab \in {<<0, 0>>, <<1, 0>>, <<0, 1>>}, d \in -1..DMax}
    /\ pK \in {Intrinsics(f1, f2, c1, c2) :
                  f1 \in ProjFocals, f2 \in ProjFocals,
                  c1 \in ProjCentres, c2 \in ProjCentres}
    /\ points \in ProjPointSets
    /\ pxy = Pending
    /\ QuatIdle /\ CamIdle /\ ScaleIdle /\ DataIdle

CallProject ==
    /\ pxy = Pending
    /\ pxy' = [tag |-> "ok", val |-> project(pq, pr, pK, points)]
    /\ UNCHANGED <<pq, pr, pK, points, quatVars, camVars, scaleVars, dataVars>>

ProjNext == CallProject

SpecProject == ProjInit /\ [][ProjNext]_vars

\* C6: with the identity quaternion, translation [0, 0, d], d > 0, and the
\* single point (0,0,0,1), project returns exactly one (x, y) pair, equal to
\* the principal point (cx, cy) of K, whatever d is.
C6_OriginHitsPrincipalPoint ==
    ( /\ pxy.tag = "ok"
      /\ pq = <<1, 0, 0, 0>>
      /\ pr[1] = RInt(0) /\ pr[2] = RInt(0) /\ pr[3][1] > 0
      /\ points = <<axes_vertices[1]>> ) =>
        /\ Len(pxy.val[1]) = 1 /\ Len(pxy.val[2]) = 1
        /\ pxy.val[1][1] = pK[1][3]
        /\ pxy.val[2][1] = pK[2][3]

\* the origin was projected at a depth other than 1 through a K whose
\* principal point is off the image origin
C6_Witness ==
    /\ pxy.tag = "ok"
    /\ pq = <<1, 0, 0, 0>>
    /\ pr = Vec(<<0, 0, 3>>)
    /\ points = <<axes_vertices[1]>>
    /\ pK[1][3] = Rat(1, 2) /\ pK[2][3] = RInt(1)
    /\ pxy.val = << <<Rat(1, 2)>>, <<RInt(1)>> >>

(***************************************************************************)
(* scalePoseVector                                                         *)
(***************************************************************************)
\* the loop body for source index i - 1, on one coordinate array
ScaleTip_noOffset(p, i, f) == [p EXCEPT ![i] = RMul(RSub(p[i], p[1]), f)]

ScaleTip(p, i, f) == [p EXCEPT ![i] = RAdd(RMul(RSub(p[i], p[1]), f), p[1])]

\* for i in range(1, 4), from model index i on; the pair (xa, ya) returned
RECURSIVE ScaleLoop(_, _, _, _)
ScaleLoop(xs, ys, f, i) ==
    IF i > 4 THEN <<xs, ys>>
    ELSE ScaleLoop(ScaleTip(xs, i, f), ScaleTip(ys, i, f), f, i + 1)

scalePoseVector(xs, ys, f) == ScaleLoop(xs, ys, f, 2)

CoordMax == 1
FMax == 2
Factors == {Rat(n, d) : n \in -FMax..FMax, d \in 1..2}

ScaleInit ==
    /\ xa \in {Vec(s) : s \in [1..4 -> -1..CoordMax]}
    /\ ya \in {Vec(s) : s \in [1..4 -> 0..CoordMax]}
    /\ factor \in Factors
    /\ scaled = Pending
    /\ QuatIdle /\ CamIdle /\ ProjIdle /\ DataIdle

\* the arrays are updated in place and returned; `old` keeps the arguments as
\* they were at the call
CallScalePoseVector ==
    /\ scaled = Pending
    /\ xa' = scalePoseVector(xa, ya, factor)[1]
    /\ ya' = scalePoseVector(xa, ya, factor)[2]
    /\ scaled' = [tag |-> "ok", val |-> <<xa', ya'>>, old |-> <<xa, ya>>]
    /\ UNCHANGED <<factor, quatVars, camVars, projVars, dataVars>>

ScaleNext == CallScalePoseVector

SpecScale == ScaleInit /\ [][ScaleNext]_vars

\* C7: for every factor (0 and negative values included) scalePoseVector
\* leaves the origin entries xa[0], ya[0] unchanged and sets each tip i in
\* 1..3 to (p[i] - p[0]) * factor + p[0] computed from the unchanged origin;
\* with factor = 1 every tip coordinate is returned unchanged.
C7_ScaleAboutOrigin ==
    scaled.tag = "ok" =>
        /\ scaled.val = <<xa, ya>>
        /\ \A c \in 1..2 :
            LET p == scaled.old[c]
                r == scaled.val[c]
            IN  /\ Len(r) = 4
                /\ r[1] = p[1]
                /\ \A i \in 2..4 : r[i] = RAdd(RMul(RSub(p[i], p[1]), factor), p[1])
                /\ factor = One => r = p

\* tips off the origin, an origin off zero, were scaled by a negative factor
C7_Witness ==
    /\ scaled.tag = "ok"
    /\ factor = Rat(-1, 2)
    /\ scaled.old[1] = Vec(<<1, -1, 0, 1>>)
    /\ xa = <<RInt(1), RInt(2), Rat(3, 2), RInt(1)>>
    /\ scaled.old[2][1] = RInt(1) /\ ya[1] = RInt(1)

(***************************************************************************)
(* SpeedDataset                                                            *)
(***************************************************************************)
ValidSplits_plusVal == {"train", "test", "real_test", "val"}

ValidSplits == {"train", "test", "real_test"}

Splits == ValidSplits \cup {"val"}

\* Python's s[:k] and s[i] on a sequence s
PySlice(s, k) ==
    IF k >= 0 THEN SubSeq(s, 1, IF k < Len(s) THEN k ELSE Len(s))
    ELSE SubSeq(s, 1, IF Len(s) + k > 0 THEN Len(s) + k ELSE 0)

PyInRange(s, i) == -Len(s) <= i /\ i < Len(s)
PyIndex(s, i) == IF i >= 0 THEN s[i + 1] ELSE s[Len(s) + i + 1]

\* record i of an annotation file: every split has the filename, the train
\* split the pose, bounding box and wireframe keypoints as well
Filename(sp, i) == <<sp, i>>
AnnRecord(sp, i) ==
    IF sp = "train"
    THEN [filename |-> Filename(sp, i),
          q_vbs2tango |-> <<1, i - 1, 0, 0>>,
          r_Vo2To_vbs_true |-> <<i - 1, 0, 4 + i>>,
          bbox |-> <<i, i, i + 1, i + 1>>,
          wireframe |-> <<i, 2 * i>>]
    ELSE [filename |-> Filename(sp, i)]

AnnFile(sp, n) == [i \in 1..n |-> AnnRecord(sp, i)]

\* the dict built for each record at line 149
LabelOf(label) ==
    [q |-> label.q_vbs2tango, r |-> label.r_Vo2To_vbs_true,
     bbox |-> label.bbox, wireframe |-> label.wireframe]

\* line 146
SplitIdx(k) == IF k = None THEN -1 ELSE k[1]

Reduce_truncateThenPick(s, sanity, split_idx) ==
    IF sanity # None
    THEN IF PyInRange(PySlice(s, split_idx), sanity[1])
         THEN [tag |-> "ok", val |-> <<PyIndex(PySlice(s, split_idx), sanity[1])>>]
         ELSE [tag |-> "IndexError"]
    ELSE [tag |-> "ok", val |-> PySlice(s, split_idx)]

Reduce_oneMore(s, sanity, split_idx) ==
    IF sanity # None
    THEN IF PyInRange(s, sanity[1]) THEN [tag |-> "ok", val |-> <<PyIndex(s, sanity[1])>>]
         ELSE [tag |-> "IndexError"]
    ELSE [tag |-> "ok", val |-> PySlice(s, split_idx + 1)]

\* lines 151-156 on one of the two lists
Reduce(s, sanity, split_idx) ==
    IF sanity # None
    THEN IF PyInRange(s, sanity[1]) THEN [tag |-> "ok", val |-> <<PyIndex(s, sanity[1])>>]
         ELSE [tag |-> "IndexError"]
    ELSE [tag |-> "ok", val |-> PySlice(s, split_idx)]

\* the first stage of a transform: the crop descriptor visualize reads
CropStage(size, cx, cy, cropSize) ==
    [size |-> size, cx |-> cx, cy |-> cy, cropSize |-> cropSize]

Transforms ==
    {CropStage(<<256, 256>>, 900, 650, 512), CropStage(<<240, 480>>, 700, 500, 0)}

InputSizes == {<<256, 256>>, <<480, 240>>}

NoObject ==
    [set |-> {}, sample_ids |-> <<>>, labels |-> <<>>, train |-> FALSE,
     image_root |-> "", transform |-> None, input_size |-> <<0, 0>>,
     camera |-> [tag |-> "unset"]]

NoFrame == [pc |-> "none"]

MaxN == 3

Init ==
    /\ split \in Splits
    /\ \E n \in 0..MaxN : label_list = AnnFile(split, n)
    /\ split_index \in {None} \cup {Some(k) : k \in -1..MaxN}
    /\ sanity_check \in {None} \cup {Some(i) : i \in -1..MaxN}
    /\ transform \in {None} \cup {Some(t) : t \in Transforms}
    /\ self = NoObject
    /\ pc = "new"
    /\ opened = FALSE
    /\ ret = [tag |-> "none"]
    /\ vis = NoFrame
    /\ QuatIdle /\ CamIdle /\ ProjIdle /\ ScaleIdle

\* SpeedDataset.__init__, lines 135-169.  `self.set` is the set of attributes
\* assigned so far; an exception leaves pc = "raised" and no object is returned.
Construct ==
    /\ pc = "new"
    /\ \E inp \in InputSizes :
        IF split \notin ValidSplits
        THEN /\ ret' = [tag |-> "ValueError"]
             /\ pc' = "raised"
             /\ UNCHANGED <<self, opened>>
        ELSE LET ids == [i \in 1..Len(label_list) |-> label_list[i].filename]
                 isTrain == split = "train"
                 split_idx == SplitIdx(split_index)
                 labs == [i \in 1..Len(label_list) |-> LabelOf(label_list[i])]
                 rIds == Reduce(ids, sanity_check, split_idx)
                 rLabs == Reduce(labs, sanity_check, split_idx)
             IN  /\ opened' = TRUE
                 /\ IF isTrain /\ rIds.tag # "ok"
                    THEN /\ self' = [NoObject EXCEPT
                                        !.set = {"sample_ids", "train", "labels"},
                                        !.sample_ids = ids, !.train = TRUE,
                                        !.labels = labs]
                         /\ ret' = [tag |-> rIds.tag]
                         /\ pc' = "raised"
                    ELSE /\ self' = [NoObject EXCEPT
                                        !.set = {"sample_ids", "train", "image_root",
                                                 "transform", "wireframe_vertices",
                                                 "axes_vertices", "input_size"}
                                                \cup (IF isTrain THEN {"labels"} ELSE {}),
                                        !.sample_ids = IF isTrain THEN rIds.val ELSE ids,
                                        !.labels = IF isTrain THEN rLabs.val ELSE <<>>,
                                        !.train = isTrain,
                                        !.image_root = split,
                                        !.transform = transform,
                                        !.input_size =
                                            IF transform # None THEN transform[1].size
                                            ELSE inp]
                         /\ ret' = [tag |-> "constructed"]
                         /\ pc' = "ready"
    /\ UNCHANGED <<split, label_list, split_index, sanity_check, transform, vis>>
    /\ UNCHANGED <<quatVars, camVars, projVars, scaleVars>>

\* __len__, lines 172-173
DatasetLen ==
    /\ pc = "ready"
    /\ ret' = [tag |-> "len", val |-> Len(self.sample_ids)]
    /\ UNCHANGED <<split, label_list, split_index, sanity_check, transform,
                   self, pc, opened, vis>>
    /\ UNCHANGED <<quatVars, camVars, projVars, scaleVars>>

\* np.concatenate([q, r, bbox, wireframe]): a new flat vector
Concat(lab) == lab.q \o lab.r \o lab.bbox \o lab.wireframe

TransformOutputs == {"t1", "t2"}

GetItem_dropsSample ==
    /\ pc = "ready"
    /\ \E idx \in -1..MaxN :
        IF ~PyInRange(self.sample_ids, idx)
        THEN ret' = [tag |-> "IndexError"] /\ self' = self
        ELSE /\ ret' = [tag |-> "item", image |-> PyIndex(self.sample_ids, idx)]
             /\ self' = [self EXCEPT !.sample_ids = PySlice(self.sample_ids, -1),
                                     !.labels = PySlice(self.labels, -1)]
    /\ UNCHANGED <<split, label_list, split_index, sanity_check, transform,
                   pc, opened, vis>>
    /\ UNCHANGED <<quatVars, camVars, projVars, scaleVars>>

\* __getitem__, lines 175-194.  The image is named by its file; the transform
\* is opaque and may return any image and any encoded label.
GetItem ==
    /\ pc = "ready"
    /\ \E idx \in -1..MaxN, out \in TransformOutputs \X TransformOutputs :
        IF ~PyInRange(self.sample_ids, idx)
        THEN ret' = [tag |-> "IndexError"]
        ELSE LET img_name == <<self.image_root, PyIndex(self.sample_ids, idx)>>
                 y == IF self.train
                      THEN [kind |-> "label", val |-> Concat(PyIndex(self.labels, idx))]
                      ELSE [kind |-> "filename", val |-> PyIndex(self.sample_ids, idx)]
             IN  ret' = IF self.transform # None
                        THEN [tag |-> "item", image |-> out[1],
                              y |-> [kind |-> "encoded", val |-> out[2]]]
                        ELSE [tag |-> "item", image |-> img_name, y |-> y]
    /\ UNCHANGED <<split, label_list, split_index, sanity_check, transform,
                   self, pc, opened, vis>>
    /\ UNCHANGED <<quatVars, camVars, projVars, scaleVars>>

(***************************************************************************)
(* SpeedDataset.visualize, statement by statement                          *)
(***************************************************************************)
\* the targets a caller passes: the flat label vectors of the first records
VisTargets == {Concat(LabelOf(AnnRecord("train", i))) : i \in 1..2}
VisFactors == {Rat(1, 2), RInt(1)}

Frame(target, f, bb, crop) ==
    [pc |-> "camera", target |-> target, factor |-> f, bbox |-> bb,
     cP |-> <<crop.cx, crop.cy>>, cropSize |-> crop.cropSize,
     xa |-> <<>>, ya |-> <<>>, kAxes |-> <<>>, kWire |-> <<>>, arrows |-> 0]

dataArgs == <<split, label_list, split_index, sanity_check, transform, opened>>
pureVars == <<quatVars, camVars, projVars, scaleVars>>

\* lines 197-206: the crop descriptor is read from the transform's first stage
VisBegin ==
    /\ pc = "ready"
    /\ \E target \in VisTargets, f \in VisFactors, bb \in BOOLEAN :
        IF self.transform = None
        THEN /\ ret' = [tag |-> "AttributeError"]
             /\ UNCHANGED <<pc, vis>>
        ELSE /\ vis' = Frame(target, f, bb, self.transform[1])
             /\ pc' = "visualize"
             /\ ret' = [tag |-> "running"]
    /\ UNCHANGED <<self, dataArgs, pureVars>>

\* line 207
VisCamera ==
    /\ pc = "visualize" /\ vis.pc = "camera"
    /\ LET cam == Camera(<<vis.cropSize, vis.cropSize>>, self.input_size)
       IN  IF cam.tag = "ok"
           THEN /\ self' = [self EXCEPT !.camera = cam, !.set = @ \cup {"camera"}]
                /\ vis' = [vis EXCEPT !.pc = "cx"]
                /\ UNCHANGED <<pc, ret>>
           ELSE /\ ret' = [tag |-> cam.tag]
                /\ pc' = "ready"
                /\ vis' = NoFrame
                /\ UNCHANGED self
    /\ UNCHANGED <<dataArgs, pureVars>>

\* the right-hand sides of lines 208 and 209, c = 1 for x and 2 for y
CropCompensated(cam, cP, cropSize, c) ==
    RDiv(RMul(RSub(RAdd(Rat(IF c = 1 THEN cam.nu ELSE cam.nv, 2), Rat(cropSize, 2)),
                   RInt(cP[c])),
              RInt(cam.input_size[c])),
         RInt(cropSize))

\* line 208
VisAdjustCx ==
    /\ pc = "visualize" /\ vis.pc = "cx"
    /\ self' = [self EXCEPT !.camera.K[1][3] =
                    CropCompensated(self.camera, vis.cP, vis.cropSize, 1)]
    /\ vis' = [vis EXCEPT !.pc = "cy"]
    /\ UNCHANGED <<pc, ret, dataArgs, pureVars>>

VisAdjustCy_forgotten ==
    /\ pc = "visualize" /\ vis.pc = "cy"
    /\ vis' = [vis EXCEPT !.pc = "axes"]
    /\ UNCHANGED <<self, pc, ret, dataArgs, pureVars>>

\* line 209
VisAdjustCy ==
    /\ pc = "visualize" /\ vis.pc = "cy"
    /\ self' = [self EXCEPT !.camera.K[2][3] =
                    CropCompensated(self.camera, vis.cP, vis.cropSize, 2)]
    /\ vis' = [vis EXCEPT !.pc = "axes"]
    /\ UNCHANGED <<pc, ret, dataArgs, pureVars>>

\* lines 211-217: the axes are projected through self.camera.K, rescaled and
\* drawn as three arrows; kAxes is the K that project was given
VisAxes ==
    /\ pc = "visualize" /\ vis.pc = "axes"
    /\ LET target_q == SubSeq(vis.target, 1, 4)
           target_r == Vec(SubSeq(vis.target, 5, 7))
           xy == project(target_q, target_r, self.camera.K, axes_vertices)
           sxy == scalePoseVector(xy[1], xy[2], vis.factor)
       IN  vis' = [vis EXCEPT !.xa = sxy[1], !.ya = sxy[2],
                              !.kAxes = self.camera.K, !.arrows = @ + 3,
                              !.pc = IF vis.bbox THEN "wire" ELSE "return"]
    /\ UNCHANGED <<self, pc, ret, dataArgs, pureVars>>

\* lines 219-234: the wireframe is projected through self.camera.K and drawn
\* as twelve arrows
VisWire ==
    /\ pc = "visualize" /\ vis.pc = "wire"
    /\ LET target_q == SubSeq(vis.target, 1, 4)
           target_r == Vec(SubSeq(vis.target, 5, 7))
           xy == project(target_q, target_r, self.camera.K, wireframe_vertices)
       IN  vis' = [vis EXCEPT !.xa = xy[1], !.ya = xy[2],
                              !.kWire = self.camera.K, !.arrows = @ + 12,
                              !.pc = "return"]
    /\ UNCHANGED <<self, pc, ret, dataArgs, pureVars>>

\* line 235
VisReturn ==
    /\ pc = "visualize" /\ vis.pc = "return"
    /\ pc' = "ready"
    /\ ret' = [tag |-> "visualized", arrows |-> vis.arrows]
    /\ vis' = NoFrame
    /\ UNCHANGED <<self, dataArgs, pureVars>>

Next ==
    \/ Construct
    \/ DatasetLen
    \/ GetItem
    \/ VisBegin
    \/ VisCamera
    \/ VisAdjustCx
    \/ VisAdjustCy
    \/ VisAxes
    \/ VisWire
    \/ VisReturn

Spec == Init /\ [][Next]_vars

(***************************************************************************)
(* Claims about the dataset index                                          *)
(***************************************************************************)
Constructed == pc \in {"ready", "visualize"}
Returned == pc # "new"
N == Len(label_list)

\* sample i (0-based) of the index is original record j (0-based)
SampleIsRecord(i, j) ==
    /\ self.sample_ids[i + 1] = label_list[j + 1].filename
    /\ self.labels[i + 1] = LabelOf(label_list[j + 1])

\* C1: the train split built from N records with split_index = k, 0 <= k < N,
\* and no sanity_check has exactly k samples: __len__ returns k and sample i
\* is original record i for every i in 0..k-1.
C1_TrainPrefix ==
    \A k \in 0..(N - 1) :
        ( /\ Returned /\ split = "train"
          /\ split_index = Some(k) /\ sanity_check = None ) =>
            /\ Constructed
            /\ Len(self.sample_ids) = k /\ Len(self.labels) = k
            /\ \A i \in 0..(k - 1) : SampleIsRecord(i, i)
            /\ ret.tag = "len" => ret.val = k

\* a strict, non-empty prefix was built and its length asked for
C1_Witness ==
    /\ pc = "ready" /\ split = "train" /\ N = 3
    /\ split_index = Some(2) /\ sanity_check = None
    /\ ret.tag = "len" /\ ret.val = 2

\* C2: the train split built with sanity_check = i, 0 <= i < N, has exactly
\* one sample, original record i, whatever split_index is: the overfit
\* reduction takes precedence and no truncation is applied.
C2_OverfitOneSample ==
    \A i \in 0..(N - 1) :
        (Returned /\ split = "train" /\ sanity_check = Some(i)) =>
            /\ Constructed
            /\ Len(self.sample_ids) = 1 /\ Len(self.labels) = 1
            /\ SampleIsRecord(0, i)
            /\ ret.tag = "len" => ret.val = 1

\* both reductions were requested, with a truncation that would drop record i
C2_Witness ==
    /\ pc = "ready" /\ split = "train" /\ N = 3
    /\ sanity_check = Some(2) /\ split_index = Some(0)
    /\ self.sample_ids = <<Filename("train", 3)>>
    /\ ret.tag = "len" /\ ret.val = 1

\* C3: a split name outside {train, test, real_test} makes the constructor
\* fail with ValueError before the annotation file is opened and before any
\* attribute is assigned: no index and no partial state exist afterwards.
C3_InvalidSplitRaises ==
    (Returned /\ split \notin {"train", "test", "real_test"}) =>
        /\ pc = "raised"
        /\ ret.tag = "ValueError"
        /\ ~opened
        /\ self.set = {}
        /\ self = NoObject

\* the constructor was called with an unknown split and has failed
C3_Witness ==
    /\ pc = "raised" /\ split = "val" /\ ret.tag = "ValueError"
    /\ N = 2

\* on the train split the two lists are aligned records of the annotation file
IndexAligned ==
    (Constructed /\ self.train) =>
        /\ Len(self.sample_ids) = Len(self.labels)
        /\ \A i \in 1..Len(self.sample_ids) :
            \E j \in 1..N :
                /\ self.sample_ids[i] = label_list[j].filename
                /\ self.labels[i] = LabelOf(label_list[j])

LenIsCount == (Constructed /\ ret.tag = "len") => ret.val = Len(self.sample_ids)

IndexUntouched ==
    Constructed =>
        /\ self.sample_ids' = self.sample_ids
        /\ self.labels' = self.labels
        /\ self.train' = self.train

\* C8: after __init__ returns, no __len__, __getitem__ or visualize call
\* changes sample_ids or labels (content, length, order), so __len__ always
\* returns the same count, and on the train split the two lists have equal
\* length with labels[i] belonging to sample_ids[i].
C8_IndexReadOnly == [](IndexAligned /\ LenIsCount) /\ [][IndexUntouched]_vars

\* an item was fetched from a train index on which visualize has already run
C8_Witness ==
    /\ pc = "ready" /\ self.train /\ Len(self.sample_ids) = 2
    /\ "camera" \in self.set
    /\ ret.tag = "item"

\* C9: the train split built from N >= 1 records with neither split_index
\* nor sanity_check holds every record: __len__ returns N and sample i is
\* original record i for every i in 0..N-1.
C9_NoReductionKeepsAll ==
    ( /\ Returned /\ split = "train" /\ N >= 1
      /\ split_index = None /\ sanity_check = None ) =>
        /\ Constructed
        /\ Len(self.sample_ids) = N
        /\ \A i \in 0..(N - 1) : SampleIsRecord(i, i)
        /\ ret.tag = "len" => ret.val = N

(***************************************************************************)
(* Claims about visualize                                                  *)
(***************************************************************************)
\* (nu/2 + cropSize/2 - crop_center) * input_size / cropSize, c = 1 for x
C10_Compensated(c) ==
    LET crop == self.transform[1]
        half == Rat(IF c = 1 THEN 1920 ELSE 1200, 2)
        centre == RInt(IF c = 1 THEN crop.cx ELSE crop.cy)
    IN  RDiv(RMul(RSub(RAdd(half, Rat(crop.cropSize, 2)), centre),
                  RInt(self.input_size[c])),
             RInt(crop.cropSize))

C10_AdjustedK ==
    LET crop == self.transform[1]
        built == Camera(<<crop.cropSize, crop.cropSize>>, self.input_size)
    IN  [built.K EXCEPT ![1][3] = C10_Compensated(1), ![2][3] = C10_Compensated(2)]

\* C10: in every visualize call the Camera is built from the crop descriptor
\* and K[0][2], K[1][2] are overwritten with the crop-compensated values
\* before the first projection; every projection of the call (axes, and the
\* wireframe when bbox is set) is given that same adjusted K, and K is not
\* modified after the first projection.
C10_AdjustBeforeProject ==
    pc = "visualize" =>
        /\ vis.pc \in {"camera", "cx", "cy"} =>
            vis.arrows = 0 /\ vis.kAxes = <<>> /\ vis.kWire = <<>>
        /\ vis.pc \in {"axes", "wire", "return"} => self.camera.K = C10_AdjustedK
        /\ vis.pc \in {"wire", "return"} => vis.kAxes = C10_AdjustedK
        /\ vis.pc = "wire" => vis.kWire = <<>>
        /\ vis.pc = "return" => (vis.kWire = IF vis.bbox THEN C10_AdjustedK ELSE <<>>)

\* a call with bbox set has projected the axes and the wireframe through a K
\* whose principal point differs from the one the constructor computed
C10_Witness ==
    /\ pc = "visualize" /\ vis.pc = "return" /\ vis.bbox /\ vis.arrows = 15
    /\ self.camera.K[1][3] = RInt(158) /\ self.camera.K[2][3] = RInt(103)
    /\ vis.kWire = vis.kAxes /\ vis.kWire = self.camera.K
    /\ Camera(<<512, 512>>, <<256, 256>>).K[1][3] = RInt(480)

====
